---- MODULE Spec2Model ----
(***************************************************************************)
(* State-machine model of the credential pool (key_manager.py), the batch  *)
(* worker (autonomous_worker.py) and the checkpoint store                  *)
(* (data_manager.py).  Time is counted in whole seconds.                   *)
(***************************************************************************)
EXTENDS Integers, Sequences, FiniteSets, TLC

VARIABLES
    now,              \* time.time(), in seconds
    keys,             \* KeyManager.keys: the APIKey objects in insertion order
    key_file,         \* the file at KeyManager.key_file
    last_file_check,  \* KeyManager.last_file_check
    call,             \* the latest call a client of the pool made, and its result
    main_pc,          \* where the thread that owns the DataManager is
    unique_groups,    \* DataManager.unique_groups: the item ids, in insertion order
    processed_hashes, \* DataManager.processed_hashes
    results_cache,    \* DataManager.results_cache
    result_queue,     \* DataManager.result_queue
    stop_event,       \* DataManager.stop_event
    writer_pc,        \* where the writer thread is in _writer_loop
    progress_file,    \* the file PROGRESS_FILE
    temp_file,        \* the file PROGRESS_FILE + ".tmp"
    pending_batches,  \* what get_pending_batches returned to main
    submitted,        \* every map passed to submit_result so far, in queue order
    pc,               \* where each worker_task execution is
    batch,            \* worker_task's batch: the items it still has to resolve
    retry_count,      \* worker_task's retry_count
    api_key,          \* worker_task's api_key: the key it was handed
    wake,             \* when the worker's current time.sleep ends
    calls,            \* the external calls each worker made: key, items, time, outcome
    worker_log,       \* what each worker_task wrote with logging.error
    lock,             \* KeyManager.lock: the thread that holds it, or None
    frames            \* the locals of the KeyManager method each thread is in

poolVars == <<keys, key_file, last_file_check, call>>
storeVars == <<main_pc, unique_groups, processed_hashes, results_cache, result_queue,
               stop_event, writer_pc, progress_file, temp_file, pending_batches,
               submitted>>
workerVars == <<pc, batch, retry_count, api_key, wake, calls, worker_log>>
threadVars == <<lock, frames>>
vars == <<now, poolVars, storeVars, workerVars, threadVars>>

----------------------------------------------------------------------------
(* Bounds of the model *)

MaxCount == 1        \* cap of the counters total_requests and errors
MaxSubmits == 2      \* submit_result calls of the store's clients in one process
MaxCalls == 3        \* external calls the workers of one run make in all
MaxElapsed == 20     \* seconds after which no worker starts a no-key sleep
MaxThreadCalls == 2  \* external calls in all, where the pool's lock is modelled
MaxLoopErrors == 1   \* cap of the errors counter of a key in the loop of one worker

----------------------------------------------------------------------------
(* Program constants *)

RATE_LIMIT_DELAY == 4
COOLDOWN_SECONDS == 60 * 60 * 24

ACTIVE == "Active"
COOLDOWN == "Cooldown"
DEAD == "Dead"
KeyStatus == {ACTIVE, COOLDOWN, DEAD}

None == "None"
Pending == "pending"

KeyIds == {"k1", "k2"}

\* str(error_type) as the list of the marker substrings and words it is made of
ErrorTypes ==
    { <<"generic">>, <<"Quota">>, <<"429">>, <<"Invalid">>, <<"400">>,
      <<"API_KEY_INVALID">>, <<"429", "400">> }

Contains(marker, text) == \E i \in 1..Len(text) : text[i] = marker

APIKey(k) ==
    [key |-> k, status |-> ACTIVE, last_used |-> 0, cooldown_until |-> 0,
     total_requests |-> 0, errors |-> 0]

----------------------------------------------------------------------------
(* The key file: a line is its leading character and its stripped text *)

KeyLine(k) == [lead |-> "", body |-> k]
PaddedLine(k) == [lead |-> " ", body |-> k]
CommentLine(k) == [lead |-> "#", body |-> k]
BlankLine == [lead |-> "", body |-> ""]

\* the successive contents of the key file: an edit moves to the next one
KeyFileContents ==
    << <<KeyLine("k1")>>,
       <<CommentLine("k1"), BlankLine, PaddedLine("k2")>> >>

\* [line.strip() for line in f if line.strip() and not line.startswith('#')]
RECURSIVE read_lines(_)
read_lines(lines) ==
    IF lines = <<>> THEN <<>>
    ELSE LET l == Head(lines)
             rest == read_lines(Tail(lines))
         IN  IF l.body # "" /\ l.lead # "#" THEN <<l.body>> \o rest ELSE rest

InPool(ks, k) == \E i \in 1..Len(ks) : ks[i].key = k
IndexOf(ks, k) == CHOOSE i \in 1..Len(ks) : ks[i].key = k

\* add_new_keys that also resets a key it finds in the pool
RECURSIVE add_new_keys_resetting(_, _)
add_new_keys_resetting(ks, lines) ==
    IF lines = <<>> THEN ks
    ELSE add_new_keys_resetting(
             IF InPool(ks, Head(lines))
             THEN [ks EXCEPT ![IndexOf(ks, Head(lines))] = APIKey(Head(lines))]
             ELSE Append(ks, APIKey(Head(lines))),
             Tail(lines))

\* for k in lines: if k not in self.keys: self.keys[k] = APIKey(key=k)
RECURSIVE add_new_keys(_, _)
add_new_keys(ks, lines) ==
    IF lines = <<>> THEN ks
    ELSE add_new_keys(IF InPool(ks, Head(lines)) THEN ks
                      ELSE Append(ks, APIKey(Head(lines))),
                      Tail(lines))

\* KeyManager._load_keys: the pool and last_file_check after the call
load_keys(ks, kf, lfc) ==
    IF ~kf.exists THEN [keys |-> ks, last_file_check |-> lfc]
    ELSE IF kf.mtime <= lfc THEN [keys |-> ks, last_file_check |-> lfc]
    ELSE [keys |-> add_new_keys(ks, read_lines(kf.lines)),
          last_file_check |-> kf.mtime]

\* scan_keys with a cooldown that ends one second early (>= for >)
RECURSIVE scan_keys_early(_, _, _)
scan_keys_early(ks, i, t) ==
    IF i > Len(ks) THEN [keys |-> ks, ret |-> None]
    ELSE IF ks[i].status = DEAD THEN scan_keys_early(ks, i + 1, t)
    ELSE IF ks[i].status = COOLDOWN
         THEN IF t >= ks[i].cooldown_until
              THEN [keys |-> [ks EXCEPT ![i].status = ACTIVE], ret |-> ks[i].key]
              ELSE scan_keys_early(ks, i + 1, t)
    ELSE [keys |-> ks, ret |-> ks[i].key]

\* the loop of KeyManager.get_available_key from position i on, at time t:
\* the pool after it and the key it returns
RECURSIVE scan_keys(_, _, _)
scan_keys(ks, i, t) ==
    IF i > Len(ks) THEN [keys |-> ks, ret |-> None]
    ELSE IF ks[i].status = DEAD THEN scan_keys(ks, i + 1, t)
    ELSE IF ks[i].status = COOLDOWN
         THEN IF t > ks[i].cooldown_until
              THEN [keys |-> [ks EXCEPT ![i].status = ACTIVE], ret |-> ks[i].key]
              ELSE scan_keys(ks, i + 1, t)
    ELSE [keys |-> ks, ret |-> ks[i].key]

\* KeyManager.get_available_key: _load_keys, then the selection under the lock
get_available_key(ks, kf, lfc, t) ==
    LET loaded == load_keys(ks, kf, lfc)
        picked == scan_keys(loaded.keys, 1, t)
    IN  [keys |-> picked.keys, last_file_check |-> loaded.last_file_check,
         ret |-> picked.ret]

\* report_success that also makes the key Active
report_success_reviving(ks, k, t) ==
    IF InPool(ks, k)
    THEN [ks EXCEPT ![IndexOf(ks, k)] =
              [@ EXCEPT !.last_used = t,
                        !.total_requests = @ + 1,
                        !.errors = 0,
                        !.status = ACTIVE]]
    ELSE ks

\* KeyManager.report_success
report_success(ks, k, t) ==
    IF InPool(ks, k)
    THEN [ks EXCEPT ![IndexOf(ks, k)] =
              [@ EXCEPT !.last_used = t,
                        !.total_requests = @ + 1,
                        !.errors = 0]]
    ELSE ks

\* failure_status that puts the key in Cooldown without a new cooldown_until
failure_status_stale_until(key_obj, error_type, t) ==
    IF Contains("429", error_type) \/ Contains("Quota", error_type)
    THEN [key_obj EXCEPT !.status = COOLDOWN]
    ELSE IF Contains("400", error_type) \/ Contains("API_KEY_INVALID", error_type)
    THEN [key_obj EXCEPT !.status = DEAD]
    ELSE key_obj

\* the status branch of KeyManager.report_failure
failure_status(key_obj, error_type, t) ==
    IF Contains("429", error_type) \/ Contains("Quota", error_type)
    THEN [key_obj EXCEPT !.status = COOLDOWN,
                         !.cooldown_until = t + COOLDOWN_SECONDS]
    ELSE IF Contains("400", error_type) \/ Contains("API_KEY_INVALID", error_type)
    THEN [key_obj EXCEPT !.status = DEAD]
    ELSE key_obj

\* KeyManager.report_failure
report_failure(ks, k, error_type, t) ==
    IF ~InPool(ks, k) THEN ks
    ELSE [ks EXCEPT ![IndexOf(ks, k)] =
              failure_status([@ EXCEPT !.errors = @ + 1], error_type, t)]

StatusOf(ks, k) == ks[IndexOf(ks, k)].status

----------------------------------------------------------------------------
(* Item identifiers: strings, as the sequences of their characters *)

F1 == <<"a", "b", "|", "|", "|", "x">>
F2 == <<"b", "|", "|", "|", "y">>
F3 == <<"C", "|", "|", "|", "z">>
F4 == <<"d", "|", "|", "|", "x">>
F5 == <<"e", "|", "|", "|", "y">>
\* a key the external operation may return instead of an item's identifier
TitleOnly == <<" ", "C", " ">>

Values == {"v1", "v2"}

EmptyMap == <<>>
\* update that also stores a value for an item the argument does not hold
update_inventing(m, b) ==
    [h \in DOMAIN m \cup DOMAIN b \cup {F3} |->
        IF h \in DOMAIN b THEN b[h] ELSE IF h \in DOMAIN m THEN m[h] ELSE "v1"]

\* dict.update
update(m, b) ==
    [h \in DOMAIN m \cup DOMAIN b |-> IF h \in DOMAIN b THEN b[h] ELSE m[h]]

----------------------------------------------------------------------------
(* The checkpoint store: data_manager.py *)

Absent == [kind |-> "absent", data |-> EmptyMap]
Undecodable == [kind |-> "undecodable", data |-> EmptyMap]
Partial == [kind |-> "partial", data |-> EmptyMap]
FileOf(m) == [kind |-> "map", data |-> m]
\* a JSON value that is not an object: the empty array, written as the one
\* value that has ArrayMark where a mapping has its keys
ArrayMark == <<"[", "]">>
EmptyArray == [h \in {ArrayMark} |-> "array"]
ArrayFile == [kind |-> "array", data |-> EmptyArray]
\* whether a value has keys(), as a dict has
has_keys(value) == ArrayMark \notin DOMAIN value

\* DataManager._load_progress: results_cache and processed_hashes after it.
\* json.load raises on a text that is no JSON; keys() raises on a value
\* that is no mapping, after results_cache was assigned; the except clause
\* swallows both
load_progress(file, cache, processed) ==
    IF file.kind \in {"map", "array"}
    THEN [results_cache |-> file.data,
          processed_hashes |-> IF has_keys(file.data) THEN DOMAIN file.data
                               ELSE processed]
    ELSE [results_cache |-> cache, processed_hashes |-> processed]

\* make_batches that closes a batch when it is longer than batch_size
RECURSIVE make_batches_over(_, _, _)
make_batches_over(pending, current_batch, batch_size) ==
    IF pending = <<>>
    THEN IF current_batch # <<>> THEN <<current_batch>> ELSE <<>>
    ELSE LET grown == Append(current_batch, Head(pending))
         IN  IF Len(grown) > batch_size
             THEN <<grown>> \o make_batches_over(Tail(pending), <<>>, batch_size)
             ELSE make_batches_over(Tail(pending), grown, batch_size)

\* the batches get_pending_batches builds from the pending items left
RECURSIVE make_batches(_, _, _)
make_batches(pending, current_batch, batch_size) ==
    IF pending = <<>>
    THEN IF current_batch # <<>> THEN <<current_batch>> ELSE <<>>
    ELSE LET grown == Append(current_batch, Head(pending))
         IN  IF Len(grown) >= batch_size
             THEN <<grown>> \o make_batches(Tail(pending), <<>>, batch_size)
             ELSE make_batches(Tail(pending), grown, batch_size)

\* pending_hashes without the test against processed_hashes
pending_hashes_all(groups, processed) == groups

\* pending_hashes = [h for h in self.unique_groups if h not in self.processed_hashes]
pending_hashes(groups, processed) ==
    SelectSeq(groups, LAMBDA h : h \notin processed)

\* DataManager.get_pending_batches
get_pending_batches(groups, processed, batch_size) ==
    make_batches(pending_hashes(groups, processed), <<>>, batch_size)

\* the loop condition without the test of the queue
writer_continues_until_stop(stop, queue) == ~stop

\* the condition of the while loop of _writer_loop
writer_continues(stop, queue) == ~stop \/ queue # <<>>

\* the write made in place, into PROGRESS_FILE itself
begin_write_in_place(progress, temp) == <<Partial, temp>>

\* what open(temp, 'w') ... json.dump leaves on disk before it is complete:
\* the files as <<progress file, temp file>>
begin_write(progress, temp) == <<progress, Partial>>

----------------------------------------------------------------------------
(* The worker: autonomous_worker.py *)

NO_KEY_SLEEP == 10
RETRY_SLEEP == 1
RETRY_BUDGET == 3
\* time.sleep(random.uniform(2, 5)): the two ends of the interval
ErrorSleeps == {2, 5}

\* str.lower: C is the only upper-case character the identifiers use
LowerChar(c) == IF c = "C" THEN "c" ELSE c
Lower(s) == [i \in 1..Len(s) |-> LowerChar(s[i])]

\* str.strip
RECURSIVE LStrip(_)
LStrip(s) == IF s # <<>> /\ Head(s) = " " THEN LStrip(Tail(s)) ELSE s
RECURSIVE RStrip(_)
RStrip(s) ==
    IF s # <<>> /\ s[Len(s)] = " " THEN RStrip(SubSeq(s, 1, Len(s) - 1)) ELSE s
Strip(s) == RStrip(LStrip(s))

Separator == <<"|", "|", "|">>
StartsWith(s, p) == Len(p) <= Len(s) /\ SubSeq(s, 1, Len(p)) = p

\* a in b, for strings
IsSubstring(a, b) ==
    \E i \in 0..(Len(b) - Len(a)) : SubSeq(b, i + 1, i + Len(a)) = a

\* s.split('|||')[0]
RECURSIVE BeforeSeparator(_)
BeforeSeparator(s) ==
    IF s = <<>> \/ StartsWith(s, Separator) THEN <<>>
    ELSE <<Head(s)>> \o BeforeSeparator(Tail(s))

\* a record of the returned mapping: the item it describes, and whether it
\* has any field (an empty record {} is falsy)
Record(h, filled) == [of |-> h, filled |-> filled]
Entry(k, d) == [key |-> k, data |-> d]

NoData == [found |-> FALSE, data |-> Record(<<>>, FALSE)]
Found(d) == [found |-> TRUE, data |-> d]
\* if data:
Truthy(r) == r.found /\ r.data.filled

\* the test of the loop of find_data_for_fingerprint
fuzzy_match(target_fp, json_key) ==
    LET target_title == Lower(Strip(BeforeSeparator(target_fp)))
        j_key_clean == Lower(Strip(json_key))
    IN  \/ IsSubstring(j_key_clean, Lower(target_fp))
        \/ IsSubstring(target_title, j_key_clean)

\* find_data_for_fingerprint: response_json is the mapping as the list of its
\* entries, in the order of the dict
find_data_for_fingerprint(target_fp, response_json) ==
    LET exact == {i \in DOMAIN response_json : response_json[i].key = target_fp}
        fuzzy == {i \in DOMAIN response_json :
                     fuzzy_match(target_fp, response_json[i].key)}
    IN  IF exact # {}
        THEN Found(response_json[CHOOSE i \in exact : TRUE].data)
        ELSE IF fuzzy # {}
        THEN Found(response_json[CHOOSE i \in fuzzy :
                                    \A j \in fuzzy : i <= j].data)
        ELSE NoData

Items(b) == {b[i] : i \in 1..Len(b)}

\* clean_result without the last item of the batch
clean_result_without_last(b, result) ==
    [h \in {x \in Items(SubSeq(b, 1, Len(b) - 1)) :
               Truthy(find_data_for_fingerprint(x, result))}
        |-> find_data_for_fingerprint(h, result).data]

\* clean_result after the loop over the batch
clean_result(b, result) ==
    [h \in {x \in Items(b) : Truthy(find_data_for_fingerprint(x, result))}
        |-> find_data_for_fingerprint(h, result).data]

\* missing_items that keeps the whole batch
missing_items_all(b, result) == b

\* missing_items after the loop over the batch
missing_items(b, result) ==
    SelectSeq(b, LAMBDA h : ~Truthy(find_data_for_fingerprint(h, result)))

\* the mappings the external operation may return for batch b: records for
\* the first n items under their own identifiers, records for all the items
\* with the last one empty, or one record under a key that is only a title
Answer(b, n, last_filled) ==
    [i \in 1..n |-> Entry(b[i], Record(b[i], i < n \/ last_filled))]
Mappings(b) ==
    {Answer(b, n, TRUE) : n \in 0..Len(b)}
    \cup {Answer(b, Len(b), FALSE)}
    \cup {<<Entry(TitleOnly, Record(TitleOnly, TRUE))>>}

\* what the loop over PREFERRED_MODELS ends with
Outcome(kind, result) == [kind |-> kind, result |-> result]
Outcomes(b) ==
    {Outcome("quota", <<>>), Outcome("invalid", <<>>), Outcome("transient", <<>>)}
    \cup {Outcome("mapping", m) : m \in Mappings(b)}

\* ErrorText where every error reads as a quota error
ErrorText_all_quota(kind) == <<"429">>

\* str(e) of the exception that reaches the except clause of worker_task: an
\* error with 429 is raised again by the inner loop, every other one leaves
\* result = None
ErrorText(kind) ==
    IF kind = "quota" THEN <<"429">> ELSE <<"Models failed to generate JSON">>

----------------------------------------------------------------------------
(* The parts of the program a specification leaves at rest *)

Workers == {"w1", "w2"}

NoCall == [op |-> "none", key |-> None, error |-> <<>>, result |-> None]
Called(op, k, e, r) == [op |-> op, key |-> k, error |-> e, result |-> r]

PoolIdle ==
    /\ keys = <<>>
    /\ key_file = [exists |-> FALSE, mtime |-> 0, version |-> 0, lines |-> <<>>]
    /\ last_file_check = 0
    /\ call = NoCall

WorkersIdle ==
    /\ pc = [w \in Workers |-> "done"]
    /\ batch = [w \in Workers |-> <<>>]
    /\ retry_count = [w \in Workers |-> 0]
    /\ api_key = [w \in Workers |-> None]
    /\ wake = [w \in Workers |-> 0]
    /\ calls = [w \in Workers |-> <<>>]
    /\ worker_log = [w \in Workers |-> {}]

\* no thread is inside a method of the KeyManager
NoFrame == [lines |-> <<>>, current_mtime |-> 0]
ThreadsIdle ==
    /\ lock = None
    /\ frames = [w \in Workers |-> NoFrame]

\* DataManager.__init__, with the progress file and the items as they are found
StoreConstructed ==
    /\ main_pc = "constructed"
    /\ processed_hashes = {}
    /\ results_cache = EmptyMap
    /\ result_queue = <<>>
    /\ stop_event = FALSE
    /\ writer_pc = "not_started"
    /\ temp_file = Absent
    /\ pending_batches = <<>>
    /\ submitted = <<>>

----------------------------------------------------------------------------
(* The pool under its clients: any thread may call any public method *)

\* the clock at construction: last_used = 0 is then at least the delay ago
StartTime == 2 * RATE_LIMIT_DELAY

\* the instants at which the pool is looked at: construction, the last second
\* of a cooldown that began at construction, and the second after it
PoolInstants ==
    {StartTime, StartTime + COOLDOWN_SECONDS, StartTime + COOLDOWN_SECONDS + 1}

\* the wall clock advances
Tick ==
    /\ \E t \in PoolInstants :
          /\ t > now
          /\ now' = t
    /\ UNCHANGED <<poolVars, storeVars, workerVars, threadVars>>

\* somebody rewrites the key file
EditKeyFile ==
    /\ key_file.version < Len(KeyFileContents)
    /\ key_file' = [exists |-> TRUE, mtime |-> now, version |-> key_file.version + 1,
                    lines |-> KeyFileContents[key_file.version + 1]]
    /\ UNCHANGED <<now, keys, last_file_check, call>>
    /\ UNCHANGED <<storeVars, workerVars, threadVars>>

\* a client enters get_available_key
BeginGetAvailableKey ==
    /\ call.result # Pending
    /\ call' = Called("get_available_key", None, <<>>, Pending)
    /\ UNCHANGED <<now, keys, key_file, last_file_check>>
    /\ UNCHANGED <<storeVars, workerVars, threadVars>>

\* the call returns
EndGetAvailableKey ==
    /\ call.result = Pending
    /\ LET r == get_available_key(keys, key_file, last_file_check, now)
       IN  /\ keys' = r.keys
           /\ last_file_check' = r.last_file_check
           /\ call' = Called("get_available_key", None, <<>>, r.ret)
    /\ UNCHANGED <<now, key_file>>
    /\ UNCHANGED <<storeVars, workerVars, threadVars>>

\* a client reports a successful call made with key k
CallReportSuccess ==
    /\ call.result # Pending
    /\ \E k \in KeyIds :
          /\ InPool(keys, k) => keys[IndexOf(keys, k)].total_requests < MaxCount
          /\ keys' = report_success(keys, k, now)
          /\ call' = Called("report_success", k, <<>>, None)
    /\ UNCHANGED <<now, key_file, last_file_check>>
    /\ UNCHANGED <<storeVars, workerVars, threadVars>>

\* a client reports a failed call made with key k
CallReportFailure ==
    /\ call.result # Pending
    /\ \E k \in KeyIds, e \in ErrorTypes :
          /\ InPool(keys, k) => keys[IndexOf(keys, k)].errors < MaxCount
          /\ keys' = report_failure(keys, k, e, now)
          /\ call' = Called("report_failure", k, e, None)
    /\ UNCHANGED <<now, key_file, last_file_check>>
    /\ UNCHANGED <<storeVars, workerVars, threadVars>>

InitPool ==
    /\ now = StartTime
    /\ \E v \in 0..Len(KeyFileContents) :
          /\ key_file = [exists |-> v > 0, mtime |-> StartTime - 1, version |-> v,
                         lines |-> IF v > 0 THEN KeyFileContents[v] ELSE <<>>]
          /\ LET r == load_keys(<<>>, key_file, 0)
             IN  /\ keys = r.keys
                 /\ last_file_check = r.last_file_check
    /\ call = NoCall
    /\ StoreConstructed
    /\ unique_groups = <<>>
    /\ progress_file = Absent
    /\ WorkersIdle
    /\ ThreadsIdle

NextPool ==
    \/ Tick
    \/ EditKeyFile
    \/ BeginGetAvailableKey
    \/ EndGetAvailableKey
    \/ CallReportSuccess
    \/ CallReportFailure

SpecPool == InitPool /\ [][NextPool]_vars

\* the threads that call the pool are scheduled again and again
SpecPoolFair ==
    /\ SpecPool
    /\ WF_vars(BeginGetAvailableKey)
    /\ WF_vars(EndGetAvailableKey)

----------------------------------------------------------------------------
(* The store under its clients: main starts and stops it, any thread submits *)

StoreItems == {F1, F2, F3}

\* the progress files a run may find
InitialFiles ==
    { Absent, Undecodable, FileOf(EmptyMap),
      FileOf([h \in {F1, F2} |-> "v1"]), FileOf([h \in {F3} |-> "v2"]) }

\* the item lists _load_data may build
GroupLists == { <<F1, F2, F3>>, <<F2, F1>> }

\* the maps the store's clients submit
SubmitMaps == UNION { [S -> Values] : S \in SUBSET {F1, F2} \ {{}} }

BatchSizes == 1..2

\* DataManager.start: _load_data has filled unique_groups; _load_progress;
\* the writer thread starts
StoreStart ==
    /\ main_pc = "constructed"
    /\ LET l == load_progress(progress_file, results_cache, processed_hashes)
       IN  /\ results_cache' = l.results_cache
           /\ processed_hashes' = l.processed_hashes
    /\ writer_pc' = "check"
    /\ main_pc' = "started"
    /\ UNCHANGED <<unique_groups, result_queue, stop_event, progress_file, temp_file,
                   pending_batches, submitted>>
    /\ UNCHANGED <<now, poolVars, workerVars, threadVars>>

\* main asks for the pending batches
GetPendingBatches ==
    /\ main_pc = "started"
    /\ \E n \in BatchSizes :
          pending_batches' = get_pending_batches(unique_groups, processed_hashes, n)
    /\ main_pc' = "running"
    /\ UNCHANGED <<unique_groups, processed_hashes, results_cache, result_queue,
                   stop_event, writer_pc, progress_file, temp_file, submitted>>
    /\ UNCHANGED <<now, poolVars, workerVars, threadVars>>

\* DataManager.submit_result, from any thread
submit_result(m) ==
    /\ result_queue' = Append(result_queue, m)
    /\ submitted' = Append(submitted, [items |-> m, late |-> stop_event])

SubmitResult ==
    /\ main_pc \in {"running", "joining", "stopped"}
    /\ Len(submitted) < MaxSubmits
    /\ \E m \in SubmitMaps : submit_result(m)
    /\ UNCHANGED <<main_pc, unique_groups, processed_hashes, results_cache, stop_event,
                   writer_pc, progress_file, temp_file, pending_batches>>
    /\ UNCHANGED <<now, poolVars, workerVars, threadVars>>

writerFrame == <<main_pc, unique_groups, stop_event, pending_batches, submitted,
                now, poolVars, workerVars, threadVars>>

\* _writer_loop: the while condition
WriterCheck ==
    /\ writer_pc = "check"
    /\ writer_pc' = IF writer_continues(stop_event, result_queue) THEN "get" ELSE "exited"
    /\ UNCHANGED <<processed_hashes, results_cache, result_queue, progress_file,
                   temp_file>>
    /\ UNCHANGED writerFrame

\* result_queue.get gives a batch, which is merged into the cache
WriterGet ==
    /\ writer_pc = "get"
    /\ result_queue # <<>>
    /\ results_cache' = update(results_cache, Head(result_queue))
    /\ processed_hashes' = processed_hashes \cup DOMAIN Head(result_queue)
    /\ result_queue' = Tail(result_queue)
    /\ writer_pc' = "open"
    /\ UNCHANGED <<progress_file, temp_file>>
    /\ UNCHANGED writerFrame

\* result_queue.get times out: queue.Empty, continue
WriterTimeout ==
    /\ writer_pc = "get"
    /\ result_queue = <<>>
    /\ writer_pc' = "check"
    /\ UNCHANGED <<processed_hashes, results_cache, result_queue, progress_file,
                   temp_file>>
    /\ UNCHANGED writerFrame

\* open(temp, 'w') and the first bytes of json.dump
WriterOpen ==
    /\ writer_pc = "open"
    /\ LET files == begin_write(progress_file, temp_file)
       IN  /\ progress_file' = files[1]
           /\ temp_file' = files[2]
    /\ writer_pc' = "dump"
    /\ UNCHANGED <<processed_hashes, results_cache, result_queue>>
    /\ UNCHANGED writerFrame

\* json.dump completes and the file is closed
WriterDump ==
    /\ writer_pc = "dump"
    /\ temp_file' = FileOf(results_cache)
    /\ UNCHANGED progress_file
    /\ writer_pc' = "move"
    /\ UNCHANGED <<processed_hashes, results_cache, result_queue>>
    /\ UNCHANGED writerFrame

\* shutil.move(temp, PROGRESS_FILE), then task_done
WriterMove ==
    /\ writer_pc = "move"
    /\ progress_file' = temp_file
    /\ temp_file' = Absent
    /\ writer_pc' = "check"
    /\ UNCHANGED <<processed_hashes, results_cache, result_queue>>
    /\ UNCHANGED writerFrame

\* DataManager.stop: stop_event.set()
Stop ==
    /\ main_pc = "running"
    /\ stop_event' = TRUE
    /\ main_pc' = "joining"
    /\ UNCHANGED <<unique_groups, processed_hashes, results_cache, result_queue,
                   writer_pc, progress_file, temp_file, pending_batches, submitted>>
    /\ UNCHANGED <<now, poolVars, workerVars, threadVars>>

\* DataManager.stop: writer_thread.join() returns
StopReturns ==
    /\ main_pc = "joining"
    /\ writer_pc = "exited"
    /\ main_pc' = "stopped"
    /\ UNCHANGED <<unique_groups, processed_hashes, results_cache, result_queue,
                   stop_event, writer_pc, progress_file, temp_file, pending_batches,
                   submitted>>
    /\ UNCHANGED <<now, poolVars, workerVars, threadVars>>

\* the process dies: only the files remain
Crash ==
    /\ main_pc \notin {"constructed", "crashed"}
    /\ main_pc' = "crashed"
    /\ writer_pc' = "dead"
    /\ UNCHANGED <<unique_groups, processed_hashes, results_cache, result_queue,
                   stop_event, progress_file, temp_file, pending_batches, submitted>>
    /\ UNCHANGED <<now, poolVars, workerVars, threadVars>>

InitStore ==
    /\ now = StartTime
    /\ PoolIdle
    /\ WorkersIdle
    /\ ThreadsIdle
    /\ StoreConstructed
    /\ unique_groups \in GroupLists
    /\ progress_file \in InitialFiles

NextStore ==
    \/ StoreStart
    \/ GetPendingBatches
    \/ SubmitResult
    \/ WriterCheck
    \/ WriterGet
    \/ WriterTimeout
    \/ WriterOpen
    \/ WriterDump
    \/ WriterMove
    \/ Stop
    \/ StopReturns
    \/ Crash

SpecStore == InitStore /\ [][NextStore]_vars

----------------------------------------------------------------------------
(* The store when the persist step may fail: open, json.dump or shutil.move
   raises, and the except clause of the writer loop prints WRITE ERROR *)

\* failed_write that leaves the progress file cut short
failed_write_truncating(progress, temp) == <<Partial, temp>>

\* the files as <<progress file, temp file>> after the exception: what was
\* written of the temporary file stays, nothing else is touched
failed_write(progress, temp) == <<progress, temp>>

\* an exception in the persist step; the loop goes on
WriterFail ==
    /\ writer_pc \in {"open", "dump", "move"}
    /\ LET files == failed_write(progress_file, temp_file)
       IN  /\ progress_file' = files[1]
           /\ temp_file' = files[2]
    /\ writer_pc' = "check"
    /\ UNCHANGED <<processed_hashes, results_cache, result_queue>>
    /\ UNCHANGED writerFrame

NextPersist ==
    \/ NextStore
    \/ WriterFail

SpecPersist == InitStore /\ [][NextPersist]_vars

----------------------------------------------------------------------------
(* A run: worker_task executions over the pool and the started store *)

FiveItems == <<F1, F2, F3, F4, F5>>

\* the items of a run and the batch size main asks for: one batch of five
\* items, or two batches of one item
OneBatch == [groups |-> FiveItems, batch_size |-> 5]
TwoBatches == [groups |-> <<F1, F2>>, batch_size |-> 1]

\* the order in which the executor hands the batches to its threads
WorkerOrder == <<"w1", "w2">>
WorkerBatch(w, batches) ==
    LET i == CHOOSE n \in 1..Len(WorkerOrder) : WorkerOrder[n] = w
    IN  IF i <= Len(batches) THEN batches[i] ELSE <<>>

Sleeping == {"no_key_sleep", "throttle_sleep", "retry_sleep", "error_sleep"}
\* AfterSleep that begins worker_task again after a sleep of the loop
AfterSleep_restarting(p) == IF p = "throttle_sleep" THEN "call" ELSE "start"
\* where worker_task goes on after a sleep
AfterSleep(p) == IF p = "throttle_sleep" THEN "call" ELSE "loop"

RECURSIVE CallCount(_)
CallCount(ws) ==
    IF ws = {} THEN 0
    ELSE LET w == CHOOSE x \in ws : TRUE
         IN  Len(calls[w]) + CallCount(ws \ {w})

Horizon == StartTime + MaxElapsed

LogEntry(w, text) ==
    [text |-> <<"Worker Error">> \o text, retry_count |-> retry_count[w]]

\* worker_task: if not batch: return; retry_count = 0
WorkerStart ==
    /\ \E w \in Workers :
          /\ pc[w] = "start"
          /\ pc' = [pc EXCEPT ![w] = IF batch[w] = <<>> THEN "done" ELSE "loop"]
          /\ retry_count' = [retry_count EXCEPT ![w] = 0]
    /\ UNCHANGED <<batch, api_key, wake, calls, worker_log>>
    /\ UNCHANGED <<now, poolVars, storeVars, threadVars>>

\* the while condition, get_available_key, and the sleep when there is no key
WorkerLoop ==
    /\ \E w \in Workers :
          /\ pc[w] = "loop"
          /\ IF retry_count[w] >= RETRY_BUDGET
             THEN /\ pc' = [pc EXCEPT ![w] = "done"]
                  /\ UNCHANGED <<keys, last_file_check, call, api_key, wake>>
             ELSE LET r == get_available_key(keys, key_file, last_file_check, now)
                  IN  /\ keys' = r.keys
                      /\ last_file_check' = r.last_file_check
                      /\ call' = Called("get_available_key", None, <<>>, r.ret)
                      /\ IF r.ret = None
                         THEN /\ now + NO_KEY_SLEEP <= Horizon
                              /\ wake' = [wake EXCEPT ![w] = now + NO_KEY_SLEEP]
                              /\ pc' = [pc EXCEPT ![w] = "no_key_sleep"]
                              /\ UNCHANGED api_key
                         ELSE /\ api_key' = [api_key EXCEPT ![w] = r.ret]
                              /\ pc' = [pc EXCEPT ![w] = "acquired"]
                              /\ UNCHANGED wake
    /\ UNCHANGED <<key_file, batch, retry_count, calls, worker_log>>
    /\ UNCHANGED <<now, storeVars, threadVars>>

\* the throttle: time since the key's last_used against RATE_LIMIT_DELAY
WorkerThrottle ==
    /\ \E w \in Workers :
          /\ pc[w] = "acquired"
          /\ LET time_since_use == now - keys[IndexOf(keys, api_key[w])].last_used
             IN  IF time_since_use < RATE_LIMIT_DELAY
                 THEN /\ wake' = [wake EXCEPT ![w] =
                                     now + (RATE_LIMIT_DELAY - time_since_use)]
                      /\ pc' = [pc EXCEPT ![w] = "throttle_sleep"]
                 ELSE /\ pc' = [pc EXCEPT ![w] = "call"]
                      /\ UNCHANGED wake
    /\ UNCHANGED <<batch, retry_count, api_key, calls, worker_log>>
    /\ UNCHANGED <<now, poolVars, storeVars, threadVars>>

\* a time.sleep ends: the clock is at the wake-up time or later
WorkerWake ==
    /\ \E w \in Workers :
          /\ pc[w] \in Sleeping
          /\ now' = IF wake[w] > now THEN wake[w] ELSE now
          /\ pc' = [pc EXCEPT ![w] = AfterSleep(pc[w])]
    /\ UNCHANGED <<batch, retry_count, api_key, wake, calls, worker_log>>
    /\ UNCHANGED <<poolVars, storeVars, threadVars>>

\* genai.configure(api_key) and the request for the batch go out
WorkerInvoke ==
    /\ CallCount(Workers) < MaxCalls
    /\ \E w \in Workers :
          /\ pc[w] = "call"
          /\ calls' = [calls EXCEPT ![w] =
                          Append(@, [key |-> api_key[w], items |-> batch[w],
                                     at |-> now, outcome |-> Pending,
                                     result |-> <<>>])]
          /\ pc' = [pc EXCEPT ![w] = "calling"]
    /\ UNCHANGED <<batch, retry_count, api_key, wake, worker_log>>
    /\ UNCHANGED <<now, poolVars, storeVars, threadVars>>

\* the if result: branch: report_success, the resolution of the batch, the
\* submission, and the retry with the missing items
resolve(w, result) ==
    LET clean == clean_result(batch[w], result)
        missing == missing_items(batch[w], result)
    IN  /\ keys' = report_success(keys, api_key[w], now)
        /\ call' = Called("report_success", api_key[w], <<>>, None)
        /\ IF DOMAIN clean # {}
           THEN submit_result(clean)
           ELSE UNCHANGED <<result_queue, submitted>>
        /\ IF missing # <<>>
           THEN /\ batch' = [batch EXCEPT ![w] = missing]
                /\ retry_count' = [retry_count EXCEPT ![w] = @ + 1]
                /\ wake' = [wake EXCEPT ![w] = now + RETRY_SLEEP]
                /\ pc' = [pc EXCEPT ![w] = "retry_sleep"]
           ELSE /\ pc' = [pc EXCEPT ![w] = "done"]
                /\ UNCHANGED <<batch, retry_count, wake>>
        /\ UNCHANGED worker_log

\* the except clause of worker_task, for an exception whose str is text
handle_error(w, text) ==
    /\ IF Contains("429", text)
       THEN /\ keys' = report_failure(keys, api_key[w], <<"Quota">>, now)
            /\ call' = Called("report_failure", api_key[w], <<"Quota">>, None)
            /\ UNCHANGED worker_log
       ELSE IF Contains("400", text)
       THEN /\ keys' = report_failure(keys, api_key[w], <<"Invalid">>, now)
            /\ call' = Called("report_failure", api_key[w], <<"Invalid">>, None)
            /\ UNCHANGED worker_log
       ELSE /\ worker_log' = [worker_log EXCEPT ![w] = @ \cup {LogEntry(w, text)}]
            /\ UNCHANGED <<keys, call>>
    /\ \E s \in ErrorSleeps : wake' = [wake EXCEPT ![w] = now + s]
    /\ pc' = [pc EXCEPT ![w] = "error_sleep"]
    /\ UNCHANGED <<batch, retry_count, result_queue, submitted>>

\* the loop over PREFERRED_MODELS ends, and what worker_task does with it
WorkerReturn ==
    /\ \E w \in Workers :
          /\ pc[w] = "calling"
          /\ \E o \in Outcomes(batch[w]) :
                /\ calls' = [calls EXCEPT ![w][Len(calls[w])] =
                                [@ EXCEPT !.outcome = o.kind, !.result = o.result]]
                /\ IF o.kind = "mapping" /\ o.result # <<>>
                   THEN resolve(w, o.result)
                   ELSE handle_error(w, ErrorText(o.kind))
    /\ UNCHANGED <<key_file, last_file_check, api_key>>
    /\ UNCHANGED <<now, main_pc, unique_groups, processed_hashes, results_cache,
                   stop_event, writer_pc, progress_file, temp_file, pending_batches>>
    /\ UNCHANGED threadVars

\* main leaves the executor when every worker_task has returned, and stops
\* the store
RunStop ==
    /\ \A w \in Workers : pc[w] = "done"
    /\ Stop

\* the pool of a KeyManager that has loaded the key file at each of its
\* contents up to the given one
RECURSIVE LoadedPool(_)
LoadedPool(version) ==
    IF version = 0 THEN <<>>
    ELSE add_new_keys(LoadedPool(version - 1),
                      read_lines(KeyFileContents[version]))

\* main has started the store, asked for the pending batches and handed
\* them to the executor's threads: a thread without a batch runs no worker_task
RunStartedWith(input, version, pool) ==
    /\ now = StartTime
    /\ keys = pool
    /\ key_file = [exists |-> TRUE, mtime |-> StartTime - 1,
                   version |-> version,
                   lines |-> KeyFileContents[version]]
    /\ last_file_check = StartTime - 1
    /\ call = NoCall
    /\ unique_groups = input.groups
    /\ pending_batches = get_pending_batches(input.groups, {}, input.batch_size)
    /\ main_pc = "running"
    /\ processed_hashes = {}
    /\ results_cache = EmptyMap
    /\ result_queue = <<>>
    /\ stop_event = FALSE
    /\ writer_pc = "check"
    /\ progress_file = Absent
    /\ temp_file = Absent
    /\ submitted = <<>>
    /\ batch = [w \in Workers |-> WorkerBatch(w, pending_batches)]
    /\ pc = [w \in Workers |-> IF batch[w] = <<>> THEN "done" ELSE "start"]
    /\ retry_count = [w \in Workers |-> 0]
    /\ api_key = [w \in Workers |-> None]
    /\ wake = [w \in Workers |-> 0]
    /\ calls = [w \in Workers |-> <<>>]
    /\ worker_log = [w \in Workers |-> {}]
    /\ ThreadsIdle

\* the same, with a pool that no call has touched yet
RunStartedAt(input, version) == RunStartedWith(input, version, LoadedPool(version))

RunStarted(input) == RunStartedAt(input, Len(KeyFileContents))

InitRun == RunStarted(OneBatch)

NextRun ==
    \/ WorkerStart
    \/ WorkerLoop
    \/ WorkerThrottle
    \/ WorkerWake
    \/ WorkerInvoke
    \/ WorkerReturn
    \/ WriterCheck
    \/ WriterGet
    \/ WriterTimeout
    \/ WriterOpen
    \/ WriterDump
    \/ WriterMove
    \/ RunStop
    \/ StopReturns

SpecRun == InitRun /\ [][NextRun]_vars

----------------------------------------------------------------------------
(* Two worker_task executions side by side over the pool; the writer thread
   of the store is not scheduled *)

InitWork == RunStarted(TwoBatches)

NextWork ==
    \/ WorkerStart
    \/ WorkerLoop
    \/ WorkerThrottle
    \/ WorkerWake
    \/ WorkerInvoke
    \/ WorkerReturn

SpecWork == InitWork /\ [][NextWork]_vars

----------------------------------------------------------------------------
(* The threads inside the KeyManager: two worker_task executions, with each
   method of the pool as the steps a thread takes around KeyManager.lock *)

\* leaving a with self.lock block that keeps the lock
unlock_kept(owner) == owner

\* leaving a with self.lock block
unlock(owner) == None

LastCall(w) == calls[w][Len(calls[w])]

threadFrame == <<now, storeVars, batch, retry_count, api_key, wake, calls,
                 worker_log>>

\* the while condition; _load_keys up to the reading of the file
LoadKeysRead ==
    /\ \E t \in Workers :
          /\ pc[t] = "loop"
          /\ IF retry_count[t] >= RETRY_BUDGET
             THEN /\ pc' = [pc EXCEPT ![t] = "done"]
                  /\ UNCHANGED frames
             ELSE IF ~key_file.exists \/ key_file.mtime <= last_file_check
             THEN /\ pc' = [pc EXCEPT ![t] = "get_lock"]
                  /\ UNCHANGED frames
             ELSE /\ frames' = [frames EXCEPT ![t] =
                                    [lines |-> read_lines(key_file.lines),
                                     current_mtime |-> key_file.mtime]]
                  /\ pc' = [pc EXCEPT ![t] = "load_lock"]
    /\ UNCHANGED <<poolVars, lock>>
    /\ UNCHANGED threadFrame

\* _load_keys: with self.lock
LoadKeysLock ==
    /\ lock = None
    /\ \E t \in Workers :
          /\ pc[t] = "load_lock"
          /\ lock' = t
          /\ pc' = [pc EXCEPT ![t] = "load_add"]
    /\ UNCHANGED <<poolVars, frames>>
    /\ UNCHANGED threadFrame

\* _load_keys: the loop that adds the new keys, and the end of the block
LoadKeysAdd ==
    /\ \E t \in Workers :
          /\ pc[t] = "load_add"
          /\ keys' = add_new_keys(keys, frames[t].lines)
          /\ pc' = [pc EXCEPT ![t] = "load_mark"]
    /\ lock' = unlock(lock)
    /\ UNCHANGED <<key_file, last_file_check, call, frames>>
    /\ UNCHANGED threadFrame

\* _load_keys: self.last_file_check = current_mtime
LoadKeysMark ==
    /\ \E t \in Workers :
          /\ pc[t] = "load_mark"
          /\ last_file_check' = frames[t].current_mtime
          /\ frames' = [frames EXCEPT ![t] = NoFrame]
          /\ pc' = [pc EXCEPT ![t] = "get_lock"]
    /\ UNCHANGED <<keys, key_file, call, lock>>
    /\ UNCHANGED threadFrame

\* get_available_key: with self.lock
GetKeyLock ==
    /\ lock = None
    /\ \E t \in Workers :
          /\ pc[t] = "get_lock"
          /\ lock' = t
          /\ pc' = [pc EXCEPT ![t] = "get_scan"]
    /\ UNCHANGED <<poolVars, frames>>
    /\ UNCHANGED threadFrame

\* get_available_key: the selection, the end of the block, and what
\* worker_task does with the key or with None
GetKeyScan ==
    /\ \E t \in Workers :
          /\ pc[t] = "get_scan"
          /\ LET r == scan_keys(keys, 1, now)
             IN  /\ keys' = r.keys
                 /\ call' = Called("get_available_key", None, <<>>, r.ret)
                 /\ IF r.ret = None
                    THEN /\ now + NO_KEY_SLEEP <= Horizon
                         /\ wake' = [wake EXCEPT ![t] = now + NO_KEY_SLEEP]
                         /\ pc' = [pc EXCEPT ![t] = "no_key_sleep"]
                         /\ UNCHANGED api_key
                    ELSE /\ api_key' = [api_key EXCEPT ![t] = r.ret]
                         /\ pc' = [pc EXCEPT ![t] = "acquired"]
                         /\ UNCHANGED wake
    /\ lock' = unlock(lock)
    /\ UNCHANGED <<key_file, last_file_check, frames>>
    /\ UNCHANGED <<now, storeVars, batch, retry_count, calls, worker_log>>

\* what the external operation may answer in this specification: an error
\* with 429, records for all the items, or the same with the last record
\* empty
ThreadOutcomes(b) ==
    { Outcome("quota", <<>>),
      Outcome("mapping", Answer(b, Len(b), TRUE)),
      Outcome("mapping", Answer(b, Len(b), FALSE)) }

\* genai.configure(api_key) and the request for the batch go out
ThreadInvoke ==
    /\ CallCount(Workers) < MaxThreadCalls
    /\ \E t \in Workers :
          /\ pc[t] = "call"
          /\ calls' = [calls EXCEPT ![t] =
                          Append(@, [key |-> api_key[t], items |-> batch[t],
                                     at |-> now, outcome |-> Pending,
                                     result |-> <<>>])]
          /\ pc' = [pc EXCEPT ![t] = "calling"]
    /\ UNCHANGED <<batch, retry_count, api_key, wake, worker_log>>
    /\ UNCHANGED <<now, poolVars, storeVars, threadVars>>

storeRest == <<main_pc, unique_groups, processed_hashes, results_cache, stop_event,
               writer_pc, progress_file, temp_file, pending_batches>>

\* the loop over PREFERRED_MODELS ends: worker_task goes on to report_success
\* or to report_failure, or logs the error and sleeps
ThreadReturn ==
    /\ \E t \in Workers :
          /\ pc[t] = "calling"
          /\ \E o \in ThreadOutcomes(batch[t]) :
                /\ calls' = [calls EXCEPT ![t][Len(calls[t])] =
                                [@ EXCEPT !.outcome = o.kind, !.result = o.result]]
                /\ IF o.kind = "mapping" /\ o.result # <<>>
                   THEN /\ pc' = [pc EXCEPT ![t] = "success_lock"]
                        /\ UNCHANGED <<keys, call, result_queue, submitted, batch,
                                       retry_count, wake, worker_log>>
                   ELSE IF \/ Contains("429", ErrorText(o.kind))
                           \/ Contains("400", ErrorText(o.kind))
                   THEN /\ pc' = [pc EXCEPT ![t] = "failure_lock"]
                        /\ UNCHANGED <<keys, call, result_queue, submitted, batch,
                                       retry_count, wake, worker_log>>
                   ELSE handle_error(t, ErrorText(o.kind))
    /\ UNCHANGED <<key_file, last_file_check, api_key, lock, frames>>
    /\ UNCHANGED <<now, storeRest>>

\* report_success: with self.lock
ReportSuccessLock ==
    /\ lock = None
    /\ \E t \in Workers :
          /\ pc[t] = "success_lock"
          /\ lock' = t
          /\ pc' = [pc EXCEPT ![t] = "success_report"]
    /\ UNCHANGED <<poolVars, frames>>
    /\ UNCHANGED threadFrame

\* report_success: the body and the end of the block, and the rest of the
\* if result: branch of worker_task
ReportSuccessBody ==
    /\ \E t \in Workers :
          /\ pc[t] = "success_report"
          /\ resolve(t, LastCall(t).result)
    /\ lock' = unlock(lock)
    /\ UNCHANGED <<key_file, last_file_check, api_key, calls, frames>>
    /\ UNCHANGED <<now, storeRest>>

\* report_failure: with self.lock
ReportFailureLock ==
    /\ lock = None
    /\ \E t \in Workers :
          /\ pc[t] = "failure_lock"
          /\ lock' = t
          /\ pc' = [pc EXCEPT ![t] = "failure_report"]
    /\ UNCHANGED <<poolVars, frames>>
    /\ UNCHANGED threadFrame

\* report_failure: the body and the end of the block, and the sleep at the
\* end of the except clause of worker_task
ReportFailureBody ==
    /\ \E t \in Workers :
          /\ pc[t] = "failure_report"
          /\ handle_error(t, ErrorText(LastCall(t).outcome))
    /\ lock' = unlock(lock)
    /\ UNCHANGED <<key_file, last_file_check, api_key, calls, frames>>
    /\ UNCHANGED <<now, storeRest>>

\* the pool has loaded the first contents of the key file; the file is
\* edited while the workers run
InitThreads == RunStartedAt(TwoBatches, 1)

NextThreads ==
    \/ WorkerStart
    \/ LoadKeysRead
    \/ LoadKeysLock
    \/ LoadKeysAdd
    \/ LoadKeysMark
    \/ GetKeyLock
    \/ GetKeyScan
    \/ WorkerThrottle
    \/ WorkerWake
    \/ ThreadInvoke
    \/ ThreadReturn
    \/ ReportSuccessLock
    \/ ReportSuccessBody
    \/ ReportFailureLock
    \/ ReportFailureBody
    \/ EditKeyFile

SpecThreads == InitThreads /\ [][NextThreads]_vars
(* One worker_task execution for as long as it runs: the instants are
   counted from the present one, so that a sleep moves every recorded
   instant back instead of moving the clock forward, and the calls are not
   kept *)

\* an instant seen d seconds later; an instant at 0 is already further back
\* than every delay the program compares it with
earlier(t, d) == IF t > d THEN t - d ELSE 0

\* the instants held by the pool, seen d seconds later
elapse(ks, d) ==
    [i \in DOMAIN ks |->
        [ks[i] EXCEPT !.last_used = earlier(@, d), !.cooldown_until = earlier(@, d)]]

OneItem == [groups |-> <<F1>>, batch_size |-> 1]

\* a time.sleep ends
LoopWake ==
    /\ \E w \in Workers :
          /\ pc[w] \in Sleeping
          /\ LET d == IF wake[w] > now THEN wake[w] - now ELSE 0
             IN  /\ keys' = elapse(keys, d)
                 /\ wake' = [x \in Workers |->
                                IF wake[x] > now + d THEN wake[x] - d
                                ELSE IF wake[x] > now THEN now ELSE wake[x]]
          /\ pc' = [pc EXCEPT ![w] = AfterSleep(pc[w])]
    /\ UNCHANGED <<now, key_file, last_file_check, call>>
    /\ UNCHANGED <<batch, retry_count, api_key, calls, worker_log>>
    /\ UNCHANGED <<storeVars, threadVars>>

\* genai.configure(api_key) and the request for the batch go out
LoopInvoke ==
    /\ \E w \in Workers :
          /\ pc[w] = "call"
          /\ pc' = [pc EXCEPT ![w] = "calling"]
    /\ UNCHANGED <<batch, retry_count, api_key, wake, calls, worker_log>>
    /\ UNCHANGED <<now, poolVars, storeVars, threadVars>>

\* the loop over PREFERRED_MODELS ends, and what worker_task does with it;
\* a key meets a quota error while its errors counter is below the bound
LoopReturn ==
    /\ \E w \in Workers :
          /\ pc[w] = "calling"
          /\ \E o \in Outcomes(batch[w]) :
                /\ o.kind = "quota"
                   => keys[IndexOf(keys, api_key[w])].errors < MaxLoopErrors
                /\ IF o.kind = "mapping" /\ o.result # <<>>
                   THEN resolve(w, o.result)
                   ELSE handle_error(w, ErrorText(o.kind))
    /\ UNCHANGED <<key_file, last_file_check, api_key, calls>>
    /\ UNCHANGED <<now, main_pc, unique_groups, processed_hashes, results_cache,
                   stop_event, writer_pc, progress_file, temp_file, pending_batches>>
    /\ UNCHANGED threadVars

InitLoop == RunStartedAt(OneItem, 1)

NextLoop ==
    \/ WorkerStart
    \/ WorkerLoop
    \/ WorkerThrottle
    \/ LoopWake
    \/ LoopInvoke
    \/ LoopReturn

SpecLoop == InitLoop /\ [][NextLoop]_vars

\* the thread of the executor that runs worker_task is scheduled again and
\* again
SpecLoopFair == SpecLoop /\ WF_vars(NextLoop)

----------------------------------------------------------------------------
(* A worker that finds no key: the one key of the pool met a quota error
   before this worker_task execution began, and its cooldown has a few
   seconds left; the key file may be rewritten meanwhile *)

\* the seconds of cooldown left when the workers start
CooldownLefts == {5, 15}

\* the pool after report_failure(k1, "Quota") a whole cooldown less left
\* seconds ago
CooledPool(left) ==
    report_failure(LoadedPool(1), "k1", <<"Quota">>,
                   StartTime + left - COOLDOWN_SECONDS)

InitWait == \E left \in CooldownLefts : RunStartedWith(OneItem, 1, CooledPool(left))

NextWait ==
    \/ WorkerStart
    \/ WorkerLoop
    \/ WorkerThrottle
    \/ WorkerWake
    \/ WorkerInvoke
    \/ WorkerReturn
    \/ EditKeyFile

SpecWait == InitWait /\ [][NextWait]_vars

----------------------------------------------------------------------------
(* main of orchestrator.py: the managers, the pending batches, and the
   counting of the items for the dashboard *)

\* the attributes DataManager.__init__ gives an instance
DataManagerAttributes ==
    { "full_df", "unique_groups", "hash_map", "processed_hashes", "results_cache",
      "result_queue", "stop_event", "writer_thread" }

\* getattr of a DataManager: whether the access returns or raises
\* AttributeError
has_attribute(name) == name \in DataManagerAttributes

\* total_items = len(data_mgr.unique_fingerprints): when the access raises,
\* the exception leaves main, and the process ends with its daemon writer
\* thread
MainCountItems ==
    /\ main_pc = "running"
    /\ IF has_attribute("unique_fingerprints") /\ has_attribute("processed_data")
       THEN /\ main_pc' = "dispatching"
            /\ UNCHANGED writer_pc
       ELSE /\ main_pc' = "crashed"
            /\ writer_pc' = "dead"
    /\ UNCHANGED <<unique_groups, processed_hashes, results_cache, result_queue,
                   stop_event, progress_file, temp_file, pending_batches, submitted>>
    /\ UNCHANGED <<now, poolVars, workerVars, threadVars>>

\* the progress files main may find: the store's own, and one edited by hand
StartupFiles == InitialFiles \cup {ArrayFile}

\* DataManager() and KeyManager(config.KEYS_FILE) are constructed
InitMain ==
    /\ now = StartTime
    /\ \E v \in 0..Len(KeyFileContents) :
          /\ key_file = [exists |-> v > 0, mtime |-> StartTime - 1, version |-> v,
                         lines |-> IF v > 0 THEN KeyFileContents[v] ELSE <<>>]
          /\ LET r == load_keys(<<>>, key_file, 0)
             IN  /\ keys = r.keys
                 /\ last_file_check = r.last_file_check
    /\ call = NoCall
    /\ StoreConstructed
    /\ unique_groups \in GroupLists
    /\ progress_file \in StartupFiles
    /\ WorkersIdle
    /\ ThreadsIdle

\* the steps main and the writer thread can take
NextMain ==
    \/ StoreStart
    \/ GetPendingBatches
    \/ MainCountItems
    \/ WriterCheck
    \/ WriterTimeout

SpecMain == InitMain /\ [][NextMain]_vars

----------------------------------------------------------------------------
(* Claims about the pool *)

IsStatus(k, st) == InPool(keys, k) /\ StatusOf(keys, k) = st
Returned(k) == call.op = "get_available_key" /\ call.result = k

\* C1: once a credential's status is Dead, no later call changes it to
\* Cooldown or Active
C1_DeadIsAbsorbing ==
    [][\A k \in KeyIds : IsStatus(k, DEAD) => IsStatus(k, DEAD)']_vars

\* C2: a credential that has been marked Dead is never returned by
\* get_available_key afterwards
C2_DeadNeverReturned ==
    \A k \in KeyIds : [](IsStatus(k, DEAD) => [](~Returned(k)))

QuotaErrors == { <<"Quota">>, <<"429">> }
CooldownUntil(k) == keys[IndexOf(keys, k)].cooldown_until
GetReturns == call.op = "get_available_key" /\ call.result = Pending

\* C4: after report_failure(k, quota) the status of k is Cooldown with
\* cooldown_until a whole cooldown later; a get_available_key call made at a
\* time up to cooldown_until leaves k in Cooldown and does not return it; and
\* k goes from Cooldown to Active only in a get_available_key call made after
\* cooldown_until, which returns it
C4_CooldownUntilElapsed ==
    [][\A k \in KeyIds :
         /\ (/\ <<call, keys>>' # <<call, keys>>
             /\ call'.op = "report_failure" /\ call'.key = k
             /\ call'.error \in QuotaErrors /\ InPool(keys, k))
            => /\ IsStatus(k, COOLDOWN)'
               /\ CooldownUntil(k)' = now + COOLDOWN_SECONDS
         /\ (IsStatus(k, COOLDOWN) /\ GetReturns /\ now <= CooldownUntil(k))
            => IsStatus(k, COOLDOWN)' /\ call'.result # k
         /\ (IsStatus(k, COOLDOWN) /\ IsStatus(k, ACTIVE)')
            => GetReturns /\ now > CooldownUntil(k) /\ call'.result = k
      ]_vars

\* C4 witness: a credential in Cooldown, skipped by a get_available_key call
\* made in the last second of its cooldown
C4_Witness ==
    \E k \in KeyIds :
        /\ IsStatus(k, COOLDOWN)
        /\ now = CooldownUntil(k)
        /\ call.op = "get_available_key"
        /\ call.result \notin {Pending, k}

\* C10: over repeated get_available_key calls, a credential that stays Active
\* is eventually returned
C10_NoStarvation ==
    \A k \in KeyIds : []([]IsStatus(k, ACTIVE) => <>Returned(k))

\* a get_available_key call returns in this step
GetReturned == GetReturns /\ call' # call /\ call'.op = "get_available_key"

\* C11: after a get_available_key call has returned, no credential of the
\* pool is in Cooldown with a cooldown_until earlier than the time of the call
C11_ExpiredAllPromoted ==
    [][GetReturned
       => \A k \in KeyIds :
             ~(IsStatus(k, COOLDOWN)' /\ InPool(keys', k) /\ CooldownUntil(k)' < now)
      ]_vars

\* the error classes report_failure tells apart
QuotaClass(e) == Contains("429", e) \/ Contains("Quota", e)
InvalidClass(e) ==
    ~QuotaClass(e) /\ (Contains("400", e) \/ Contains("API_KEY_INVALID", e))

\* report_failure(k, ...) is made in this step, on a credential of the pool
FailureReported(k) ==
    /\ <<call, keys>>' # <<call, keys>>
    /\ call'.op = "report_failure"
    /\ call'.key = k
    /\ InPool(keys, k)

KeyOf(ks, k) == ks[IndexOf(ks, k)]

\* C12: report_failure adds 1 to the credential's errors; a quota error sets
\* status Cooldown and cooldown_until a whole cooldown after now, an
\* invalid-credential error sets status Dead, and any other error leaves
\* status and cooldown_until as they were
C12_FailureByClass ==
    [][\A k \in KeyIds :
         FailureReported(k)
         => LET before == KeyOf(keys, k)
                after == KeyOf(keys', k)
                e == call'.error
            IN  /\ after.errors = before.errors + 1
                /\ QuotaClass(e)
                   => /\ after.status = COOLDOWN
                      /\ after.cooldown_until = now + COOLDOWN_SECONDS
                /\ InvalidClass(e)
                   => /\ after.status = DEAD
                      /\ after.cooldown_until = before.cooldown_until
                /\ (~QuotaClass(e) /\ ~InvalidClass(e))
                   => /\ after.status = before.status
                      /\ after.cooldown_until = before.cooldown_until
      ]_vars

\* C12 witness: a credential that was in Cooldown is Dead after an
\* invalid-credential report, with its cooldown_until kept
C12_Witness ==
    /\ call.op = "report_failure"
    /\ InvalidClass(call.error)
    /\ IsStatus(call.key, DEAD)
    /\ CooldownUntil(call.key) = StartTime + COOLDOWN_SECONDS
    /\ KeyOf(keys, call.key).errors = 1

\* report_success(k) is made in this step, on a credential of the pool
SuccessReported(k) ==
    /\ <<call, keys>>' # <<call, keys>>
    /\ call'.op = "report_success"
    /\ call'.key = k
    /\ InPool(keys, k)

\* C13: report_success(k) sets errors of k to 0, adds 1 to its
\* total_requests and sets its last_used to now, and leaves its status, its
\* cooldown_until and every other credential as they were; no step of the
\* pool makes the total_requests of a credential smaller
C13_SuccessFrame ==
    [][/\ \A k \in KeyIds :
             SuccessReported(k)
             => /\ KeyOf(keys', k) =
                      [KeyOf(keys, k) EXCEPT !.errors = 0,
                                             !.total_requests = @ + 1,
                                             !.last_used = now]
                /\ Len(keys') = Len(keys)
                /\ \A i \in 1..Len(keys) : keys[i].key # k => keys'[i] = keys[i]
       /\ \A k \in KeyIds :
             InPool(keys, k)
             => /\ InPool(keys', k)
                /\ KeyOf(keys', k).total_requests >= KeyOf(keys, k).total_requests
      ]_vars

\* C13 witness: a success was reported for a credential in Cooldown that had
\* an error counted, next to another credential
C13_Witness ==
    /\ call.op = "report_success"
    /\ IsStatus(call.key, COOLDOWN)
    /\ KeyOf(keys, call.key).errors = 0
    /\ KeyOf(keys, call.key).total_requests = 1
    /\ KeyOf(keys, call.key).last_used = now
    /\ Len(keys) = 2

----------------------------------------------------------------------------
(* Claims about the checkpoint store *)

InBatches(h, batches) ==
    \E i \in 1..Len(batches) : \E j \in 1..Len(batches[i]) : batches[i][j] = h

SubmittedIds == UNION { DOMAIN submitted[i].items : i \in 1..Len(submitted) }
LastSubmitted(h) ==
    LET last == CHOOSE i \in 1..Len(submitted) :
                   /\ h \in DOMAIN submitted[i].items
                   /\ \A j \in (i + 1)..Len(submitted) : h \notin DOMAIN submitted[j].items
    IN  submitted[last].items[h]
NoLateSubmit == \A i \in 1..Len(submitted) : ~submitted[i].late

C6_AtomicReplace ==
    [][/\ progress_file' # progress_file
          => /\ progress_file'.kind = "map"
             /\ progress_file'.data = results_cache
             /\ DOMAIN progress_file.data \subseteq DOMAIN progress_file'.data
       /\ main_pc' = "crashed"
          => progress_file' = progress_file /\ progress_file.kind # "partial"
      ]_vars

\* C6 witness: the process has crashed in the middle of writing the temporary
\* file, while the progress file holds an older, complete map
C6_Witness ==
    /\ main_pc = "crashed"
    /\ temp_file.kind = "partial"
    /\ progress_file.kind = "map"
    /\ DOMAIN progress_file.data # {}
    /\ progress_file.data # results_cache

\* C7: no item id of the checkpoint file a run starts with is in any batch
\* get_pending_batches returns
C7_DoneItemsNotPending ==
    (main_pc = "running" /\ submitted = <<>> /\ progress_file.kind = "map")
    => \A h \in DOMAIN progress_file.data : ~InBatches(h, pending_batches)

\* C7 witness: the run started with a file holding two items and a third item
\* is pending
C7_Witness ==
    /\ main_pc = "running"
    /\ submitted = <<>>
    /\ progress_file.kind = "map"
    /\ {F1, F2} \subseteq DOMAIN progress_file.data
    /\ pending_batches # <<>>

\* C15: a map submitted after stop() was called is merged and written too:
\* once the writer thread has exited, no submitted map is left in the queue
C15_LateSubmitWritten ==
    writer_pc = "exited" => result_queue = <<>>

\* the submissions the writer has taken from the queue
Merged == Len(submitted) - Len(result_queue)
HasPair(file, h, v) == file.kind = "map" /\ h \in DOMAIN file.data /\ file.data[h] = v

\* C26: the progress file changes only in the writer's move of the complete
\* temporary file, to the map the writer has merged; every pair of the new
\* file was in the file before or is a pair of a submission the writer has
\* already taken from the queue; and from start on every item id of the
\* file is an item id of results_cache
C26_CausalVisibility ==
    [][/\ progress_file' # progress_file
          => /\ writer_pc = "move" /\ writer_pc' = "check"
             /\ progress_file'.kind = "map"
             /\ progress_file'.data = results_cache
             /\ \A h \in DOMAIN progress_file'.data :
                   \/ HasPair(progress_file, h, progress_file'.data[h])
                   \/ \E n \in 1..Merged :
                         /\ h \in DOMAIN submitted[n].items
                         /\ submitted[n].items[h] = progress_file'.data[h]
       /\ (main_pc # "constructed" /\ progress_file.kind = "map")'
          => DOMAIN progress_file'.data \subseteq DOMAIN results_cache'
      ]_vars

\* the writer has written the first submission, which gave an item the file
\* did not hold, and the second submission is still in the queue
C26_Witness ==
    /\ Len(submitted) = 2
    /\ Len(result_queue) = 1
    /\ writer_pc = "check"
    /\ progress_file = FileOf(results_cache)
    /\ \E h \in DOMAIN submitted[1].items : h \in DOMAIN progress_file.data
    /\ \E h \in DOMAIN submitted[2].items : h \notin DOMAIN progress_file.data

RECURSIVE Flatten(_)
Flatten(batches) ==
    IF batches = <<>> THEN <<>> ELSE Head(batches) \o Flatten(Tail(batches))

\* batches is the list of the items of groups that are not in processed, in
\* their order, cut into pieces of n items, the last one of 1 to n items
Partitions(batches, n, groups, processed) ==
    /\ Flatten(batches) = SelectSeq(groups, LAMBDA h : h \notin processed)
    /\ \A i \in 1..Len(batches) :
          /\ Len(batches[i]) >= 1
          /\ Len(batches[i]) <= n
          /\ i < Len(batches) => Len(batches[i]) = n

\* C27: for every batch size, get_pending_batches on the store as it is
\* gives a partition of the pending items in their order; and the batches
\* main receives are such a partition for the batch size it asked with
C27_BatchesPartitionPending ==
    [][/\ \A n \in BatchSizes :
             Partitions(get_pending_batches(unique_groups, processed_hashes, n),
                        n, unique_groups, processed_hashes)
       /\ (main_pc = "started" /\ main_pc' = "running")
          => \E n \in BatchSizes :
                Partitions(pending_batches', n, unique_groups, processed_hashes)
      ]_vars

\* main has received a full batch and a shorter last one, or the batches of
\* a run that found processed items in the file
C27_Witness ==
    /\ main_pc = "running"
    /\ \/ /\ Len(pending_batches) = 2
          /\ Len(pending_batches[1]) = 2
          /\ Len(pending_batches[2]) = 1
       \/ /\ submitted = <<>>
          /\ processed_hashes = {F3}
          /\ pending_batches = << <<F1, F2>> >>

\* the persist step of the writer ends in this step without a new file
PersistFails ==
    /\ writer_pc \in {"open", "dump", "move"}
    /\ writer_pc' \notin {writer_pc, "dead"}
    /\ ~(writer_pc = "move" /\ progress_file' = temp_file)
    /\ ~(writer_pc = "open" /\ writer_pc' = "dump")
    /\ ~(writer_pc = "dump" /\ writer_pc' = "move")

\* C28: a persist step that fails leaves the progress file, results_cache
\* and processed_hashes as they were and the writer at the head of its loop;
\* every submission taken from the queue stays in results_cache; and a
\* persist step that succeeds writes results_cache whole, with the items of
\* every submission taken from the queue so far
C28_FailedPersistKeepsResults ==
    [][/\ PersistFails
          => /\ writer_pc' = "check"
             /\ progress_file' = progress_file
             /\ results_cache' = results_cache
             /\ processed_hashes' = processed_hashes
             /\ result_queue' = result_queue
       /\ \A n \in 1..Merged :
             DOMAIN submitted[n].items \subseteq DOMAIN results_cache
       /\ progress_file' # progress_file
          => /\ progress_file' = FileOf(results_cache)
             /\ \A n \in 1..Merged :
                   DOMAIN submitted[n].items \subseteq DOMAIN progress_file'.data
      ]_vars

\* the writer is back at the head of its loop after a failed persist: the
\* submission is merged and the progress file does not hold it yet
C28_Witness ==
    /\ Len(submitted) = 1
    /\ result_queue = <<>>
    /\ writer_pc = "check"
    /\ temp_file = Partial
    /\ DOMAIN submitted[1].items \subseteq DOMAIN results_cache
    /\ progress_file # FileOf(results_cache)

----------------------------------------------------------------------------
(* Claims about main *)

MainEnded == main_pc \in {"stopped", "crashed"}
Dispatched(b) == \E w \in Workers : pc[w] # "done" \/ calls[w] # <<>> \/ batch[w] = b

\* C17: when main has ended, every pending batch was handed to a worker
\* and the store was told to stop
C17_AllDispatchedThenStopped ==
    MainEnded
    => /\ \A i \in 1..Len(pending_batches) : Dispatched(pending_batches[i])
       /\ stop_event

Started == main_pc # "constructed"
Decodes(file) == file.kind \in {"map", "array"}

\* C18: after start, a missing or undecodable progress file has left
\* results_cache and processed_hashes empty, and a file that decodes has
\* seeded results_cache, a mapping whose key set is processed_hashes
C18_LoadProgressSeeds ==
    Started
    => IF Decodes(progress_file)
       THEN /\ results_cache = progress_file.data
            /\ has_keys(results_cache)
            /\ processed_hashes = DOMAIN results_cache
       ELSE /\ results_cache = EmptyMap
            /\ processed_hashes = {}

----------------------------------------------------------------------------
(* Claims about a run *)

Distance(a, b) == IF a >= b THEN a - b ELSE b - a

\* C3: any two external calls made with the same credential, by the same
\* worker or by two workers, start at least RATE_LIMIT_DELAY apart
C3_UsesSeparatedByDelay ==
    \A v \in Workers, w \in Workers :
        \A i \in 1..Len(calls[v]), j \in 1..Len(calls[w]) :
            (<<v, i>> # <<w, j>> /\ calls[v][i].key = calls[w][j].key)
            => Distance(calls[v][i].at, calls[w][j].at) >= RATE_LIMIT_DELAY

\* the worker's calls were: a 429 error with the first credential, then a
\* mapping with a record for each of the five items with the second
QuotaThenAllFive(w) ==
    /\ pending_batches = <<FiveItems>>
    /\ Len(keys) = 2
    /\ Len(calls[w]) = 2
    /\ calls[w][1].key = keys[1].key
    /\ calls[w][1].items = FiveItems
    /\ calls[w][1].outcome = "quota"
    /\ calls[w][2].key = keys[2].key
    /\ calls[w][2].outcome = "mapping"
    /\ calls[w][2].result = Answer(FiveItems, Len(FiveItems), TRUE)

\* C8: with two credentials and one batch of five items, when the external
\* operation fails with 429 on the first credential and then returns all five
\* items on the second, the run ends with the first credential in Cooldown,
\* the second Active with total_requests = 1, and the five items in the
\* progress file
C8_QuotaThenSuccess ==
    \A w \in Workers :
        (main_pc = "stopped" /\ QuotaThenAllFive(w))
        => /\ keys[1].status = COOLDOWN
           /\ keys[2].status = ACTIVE
           /\ keys[2].total_requests = 1
           /\ progress_file.kind = "map"
           /\ Items(FiveItems) \subseteq DOMAIN progress_file.data

\* C8 witness: the run of the scenario has ended
C8_Witness ==
    /\ main_pc = "stopped"
    /\ QuotaThenAllFive("w1")
    /\ pc["w1"] = "done"

\* the worker's first call returned records for the first three of the five
\* items only
ThreeOfFive(w) ==
    /\ Len(calls[w]) >= 1
    /\ calls[w][1].items = FiveItems
    /\ calls[w][1].outcome = "mapping"
    /\ calls[w][1].result = Answer(FiveItems, 3, TRUE)

\* the worker has returned and its last call left the items unresolved
EndedUnresolved(w, items) ==
    /\ pc[w] = "done"
    /\ calls[w] # <<>>
    /\ LET last == calls[w][Len(calls[w])]
       IN  /\ last.outcome = "mapping"
           /\ last.result # <<>>
           /\ missing_items(last.items, last.result) = items

InCheckpoint(h) ==
    \/ h \in DOMAIN results_cache
    \/ h \in DOMAIN progress_file.data
    \/ h \in SubmittedIds

\* C9: when the first call returns results for three of the five items,
\* those three are submitted at once, the next call is made with exactly the
\* two unresolved items, and when the worker ends with the two still
\* unresolved it has used its budget of 3 retries, has written a log entry
\* at that point, and the two items are not in the checkpoint
C9_PartialResolution ==
    \A w \in Workers :
        ThreeOfFive(w)
        => /\ submitted # <<>>
           /\ DOMAIN submitted[1].items = {F1, F2, F3}
           /\ Len(calls[w]) >= 2 => calls[w][2].items = <<F4, F5>>
           /\ EndedUnresolved(w, <<F4, F5>>)
              => /\ retry_count[w] = RETRY_BUDGET
                 /\ \E e \in worker_log[w] : e.retry_count = RETRY_BUDGET
                 /\ ~InCheckpoint(F4) /\ ~InCheckpoint(F5)

\* the calls of a worker that ended with an InvalidCredential error
InvalidCalls(w) == {i \in 1..Len(calls[w]) : calls[w][i].outcome = "invalid"}

\* C19: a credential whose call ended with an InvalidCredential error is
\* Dead from the worker's report on, and the worker makes no later call
\* with it
C19_InvalidKeyNotReused ==
    \A w \in Workers : \A i \in InvalidCalls(w) :
        /\ pc[w] # "calling" \/ i < Len(calls[w])
           => IsStatus(calls[w][i].key, DEAD)
        /\ \A j \in (i + 1)..Len(calls[w]) : calls[w][j].key # calls[w][i].key

KeyAvailable ==
    \E i \in DOMAIN keys :
        \/ keys[i].status = ACTIVE
        \/ keys[i].status = COOLDOWN /\ now > keys[i].cooldown_until

\* C20: if a credential is available again and again, every worker_task
\* execution on a non-empty batch eventually returns
C20_WorkerTaskReturns ==
    ([]<>KeyAvailable) => \A w \in Workers : <>(pc[w] = "done")

\* worker w leaves the external call in this step, with outcome kind
Returns(w, kind) ==
    /\ pc[w] = "calling"
    /\ pc'[w] # "calling"
    /\ calls'[w][Len(calls'[w])].outcome = kind

\* C21: a returned mapping, empty or not, is a success: report_success for
\* the credential, no error logged, and when items stay unresolved they
\* become the batch and the retry counter grows by one
C21_MappingIsSuccess ==
    [][\A w \in Workers :
          Returns(w, "mapping")
          => LET result == calls'[w][Len(calls'[w])].result
                 missing == missing_items(batch[w], result)
             IN  /\ call' = Called("report_success", api_key[w], <<>>, None)
                 /\ worker_log'[w] = worker_log[w]
                 /\ missing # <<>>
                    => /\ batch'[w] = missing
                       /\ retry_count'[w] = retry_count[w] + 1]_vars

\* C23: when a call ends in a transient error, the step that handles it
\* changes no credential of the pool, keeps the worker's batch and retry
\* counter, logs the error and starts a sleep of 2 to 5 seconds, after which
\* the worker is back at the head of its loop; its next call asks for the
\* same items
C23_TransientLeavesPool ==
    [][\A w \in Workers :
          /\ Returns(w, "transient")
             => /\ keys' = keys
                /\ batch'[w] = batch[w]
                /\ retry_count'[w] = retry_count[w]
                /\ LogEntry(w, ErrorText("transient")) \in worker_log'[w]
                /\ pc'[w] = "error_sleep"
                /\ wake'[w] \in (now + 2)..(now + 5)
          /\ (pc[w] = "error_sleep" /\ pc'[w] # "error_sleep")
             => /\ pc'[w] = "loop"
                /\ now' >= wake[w]
                /\ keys' = keys
                /\ batch'[w] = batch[w]
          /\ \A i \in 1..(Len(calls[w]) - 1) :
                calls[w][i].outcome = "transient"
                => calls[w][i + 1].items = calls[w][i].items]_vars

\* a call ended in a transient error, and the worker is in its next call
C23_Witness ==
    /\ Len(calls["w1"]) = 2
    /\ calls["w1"][1].outcome = "transient"
    /\ calls["w1"][2].items = FiveItems
    /\ pc["w1"] = "calling"
    /\ \A i \in DOMAIN keys : keys[i] = APIKey(keys[i].key)

\* the calls of worker w that have returned
Completed(w) ==
    {i \in 1..Len(calls[w]) : i < Len(calls[w]) \/ pc[w] # "calling"}
\* the worker's resolution of item h against the mapping of its i-th call
ResolvedBy(w, i, h) ==
    /\ calls[w][i].outcome = "mapping"
    /\ Truthy(find_data_for_fingerprint(h, calls[w][i].result))
Unresolved(w, i) ==
    SelectSeq(calls[w][i].items, LAMBDA h : ~ResolvedBy(w, i, h))

\* C24: as soon as a call has returned, the result of every item it
\* resolved is in a submission to the store; the next call asks for exactly
\* the items the call left unresolved; no later call asks for an item the
\* call resolved, nor for an item the call did not ask for
C24_ResolvedOnceAndSubmitted ==
    \A w \in Workers : \A i \in Completed(w) :
        /\ \A h \in Items(calls[w][i].items) :
              ResolvedBy(w, i, h)
              => \E n \in 1..Len(submitted) :
                    /\ h \in DOMAIN submitted[n].items
                    /\ submitted[n].items[h] =
                          find_data_for_fingerprint(h, calls[w][i].result).data
        /\ i < Len(calls[w]) => calls[w][i + 1].items = Unresolved(w, i)
        /\ \A j \in (i + 1)..Len(calls[w]) :
              /\ Items(calls[w][j].items) \subseteq Items(calls[w][i].items)
              /\ \A h \in Items(calls[w][j].items) : ~ResolvedBy(w, i, h)

\* a mapping resolved some of the five items, and the next call is out
C24_Witness ==
    /\ Len(calls["w1"]) = 2
    /\ calls["w1"][1].items = FiveItems
    /\ ResolvedBy("w1", 1, F1)
    /\ ~ResolvedBy("w1", 1, F5)
    /\ Len(submitted) = 1
    /\ pc["w1"] = "calling"

\* item h is a key of the mapping of worker w's i-th call
KeyOfMapping(w, i, h) ==
    /\ calls[w][i].outcome = "mapping"
    /\ \E n \in DOMAIN calls[w][i].result : calls[w][i].result[n].key = h

\* C25: an item whose identifier is a key of the returned mapping is
\* submitted to the store with the value stored under it, and is in no
\* later call of the worker
C25_PresentKeyResolves ==
    \A w \in Workers : \A i \in Completed(w) :
        \A h \in Items(calls[w][i].items) :
            KeyOfMapping(w, i, h)
            => /\ \E n \in 1..Len(submitted) : h \in DOMAIN submitted[n].items
               /\ \A j \in (i + 1)..Len(calls[w]) : h \notin Items(calls[w][j].items)

----------------------------------------------------------------------------
(* Claims about the threads inside the KeyManager *)

\* thread t takes a step of _load_keys
LoadKeysStep(t) ==
    /\ pc[t] \in {"loop", "load_lock", "load_add", "load_mark"}
    /\ pc'[t] # pc[t]

\* the keys _load_keys would read from the file as it is now
SourceKeys ==
    LET lines == read_lines(key_file.lines)
    IN  {lines[i] : i \in 1..Len(lines)}

\* C14: no step of any thread removes a credential from the pool or moves
\* it; a step of _load_keys, whatever the other threads are doing, leaves
\* every credential of the pool as it was and adds only credentials that are
\* Active with zeroed counters
C14_RefreshAdditive ==
    [][/\ Len(keys') >= Len(keys)
       /\ \A i \in 1..Len(keys) : keys'[i].key = keys[i].key
       /\ \A t \in Workers :
             LoadKeysStep(t)
             => /\ \A i \in 1..Len(keys) : keys'[i] = keys[i]
                /\ \A i \in (Len(keys) + 1)..Len(keys') :
                      keys'[i] = APIKey(keys'[i].key)
      ]_vars

\* C14 witness: a thread is in _load_keys, past its adding loop, while the
\* pool holds a credential that is no longer in the file, in Cooldown, and
\* the credential the file added has an error counted by the other thread
C14_Witness ==
    \E t \in Workers :
        /\ pc[t] = "load_mark"
        /\ Len(keys) = 2
        /\ keys[1].key \notin SourceKeys
        /\ keys[1].status = COOLDOWN
        /\ keys[2].key \in SourceKeys
        /\ keys[2].errors = 1

\* the worker is in a time.sleep or in the external call
Suspended(t) == pc[t] \in Sleeping \cup {"calling"}

\* C16: a thread that is in one of the sleeps of worker_task or in the
\* external call does not hold the lock of the KeyManager
C16_NoLockWhileSuspended ==
    \A t \in Workers : Suspended(t) => lock # t

\* C16 witness: one worker sleeps off the throttle delay while the other is
\* inside get_available_key with the lock
C16_Witness ==
    \E t \in Workers, u \in Workers :
        /\ pc[t] = "throttle_sleep"
        /\ pc[u] = "get_scan"
        /\ lock = u

----------------------------------------------------------------------------
(* Claims about a worker that finds no key *)

Usable(key_obj, t) ==
    \/ key_obj.status = ACTIVE
    \/ key_obj.status = COOLDOWN /\ t > key_obj.cooldown_until
\* the key file has changed since the last refresh and names a key the pool
\* does not hold
NewKeyInFile ==
    /\ key_file.exists
    /\ key_file.mtime > last_file_check
    /\ \E k \in SourceKeys : ~InPool(keys, k)
\* the step is worker w's pass through the while condition with budget left
AsksForKey(w) ==
    /\ pc[w] = "loop"
    /\ pc'[w] # "loop"
    /\ retry_count[w] < RETRY_BUDGET

\* C22: a worker that gets no key sleeps NO_KEY_SLEEP seconds and asks
\* again, with its batch, its retry counter and its log as they were; it
\* gets no key only when no credential is usable and the file brings no new
\* one, and otherwise goes on to the call with a usable credential
C22_NoKeyIsAWait ==
    [][\A w \in Workers :
          /\ AsksForKey(w)
             => /\ batch'[w] = batch[w]
                /\ retry_count'[w] = retry_count[w]
                /\ worker_log'[w] = worker_log[w]
                /\ IF (\E i \in DOMAIN keys : Usable(keys[i], now)) \/ NewKeyInFile
                   THEN /\ pc'[w] = "acquired"
                        /\ InPool(keys', api_key'[w])
                        /\ StatusOf(keys', api_key'[w]) = ACTIVE
                   ELSE /\ pc'[w] = "no_key_sleep"
                        /\ wake'[w] = now + NO_KEY_SLEEP
          /\ (pc[w] = "no_key_sleep" /\ pc'[w] # "no_key_sleep")
             => /\ pc'[w] = "loop"
                /\ now' >= wake[w]
                /\ batch'[w] = batch[w]
                /\ retry_count'[w] = retry_count[w]
                /\ worker_log'[w] = worker_log[w]]_vars

\* the worker waited without a key, and has gone on to the call with a key
\* whose cooldown ended, or with one that came from the file
C22_Witness ==
    /\ pc["w1"] = "calling"
    /\ retry_count["w1"] = 0
    /\ now >= StartTime + NO_KEY_SLEEP
    /\ Len(calls["w1"]) = 1
    /\ \/ api_key["w1"] = "k2"
       \/ api_key["w1"] = "k1" /\ key_file.version = 1

====
